---- MODULE Spec2Model ----
(***************************************************************************)
(* Chunked text-to-speech of src/services/geminiService.ts: chunkText      *)
(* (lines 169-210) splits a text into segments, generateSpeech (lines      *)
(* 212-264) synthesises the segments one call at a time and concatenates   *)
(* the decoded audio.                                                      *)
(*                                                                         *)
(* A JavaScript string is a sequence of one-character strings, an index    *)
(* of the source is 0-based and becomes index + 1 of a TLA+ sequence at    *)
(* the place it is used.                                                   *)
(***************************************************************************)
EXTENDS Integers, Sequences, FiniteSets, TLC

(***************************************************************************)
(* Bounds.  MAX_CHAR_LIMIT is the source's constant of line 167, which is  *)
(* 3000 there: the model runs the same code with a budget small enough     *)
(* for every text around the budget to be enumerated.                      *)
(***************************************************************************)
MAX_CHAR_LIMIT == 3

\* chunkText is explored on every text of at most MaxTextLen characters
MaxTextLen == 6

\* generateSpeech is explored on every text of at most MaxSpeechLen characters
MaxSpeechLen == 7

\* the hard-split loop stops being followed once chunks holds this many pieces
MaxChunks == 4

\* characters: an ordinary one, the space, a blank that is not the space,
\* a delimiter that is no blank, and the delimiter that is a blank
Alphabet == {"a", " ", "\t", ".", "\n"}

SpeechAlphabet == {"a", " ", "."}

RECURSIVE StringsOver(_, _)
StringsOver(A, n) ==
    IF n = 0 THEN {<<>>}
    ELSE LET S == StringsOver(A, n - 1)
         IN  S \cup {Append(s, c) : s \in {t \in S : Len(t) = n - 1}, c \in A}

VARIABLES
    text,            \* the argument of chunkText / generateSpeech
    pc,              \* the position of the request in the code
    rawSentences,    \* chunkText: the units of line 172
    si,              \* chunkText: index (1-based) of the unit the for loop is at
    currentChunk,    \* chunkText: line 174
    remaining,       \* chunkText: line 184
    chunks,          \* chunkText: line 170
    textChunks,      \* generateSpeech: line 214
    ci,              \* generateSpeech: index (1-based) of the next segment of the loop
    outstanding,     \* generateSpeech: segments whose synthesis call has not completed
    audioChunks,     \* generateSpeech: line 215
    totalLength,     \* generateSpeech: line 216
    result,          \* what the promise of generateSpeech settled to
    issued,          \* history: the segments submitted to the service, in order
    responses,       \* history: the outcome of each completed call, in order
    caught,          \* history: the error the catch block of generateSpeech received
    appState,        \* App: useState<AppState>, line 224
    transcript,      \* App: line 225
    errorMsg,        \* App: line 226, "" for null
    transcribing,    \* App: calls of transcribeAudio that have not settled
    mode,            \* AudioRecorder: line 13
    selectedFile,    \* AudioRecorder: line 16, TRUE when a file is selected
    pendingStarts,   \* AudioRecorder: invocations of startRecording awaiting
                     \* getUserMedia, of the mounted and of unmounted instances
    recorders,       \* the MediaRecorder objects created, each with its state
    timers,          \* the interval timers that are active
    stopEvents,      \* recorders whose stop event has not been delivered
    mediaRecorderRef,   \* AudioRecorder: line 18, 0 for null
    timerIntervalRef,   \* AudioRecorder: line 19, 0 for null
    isGeneratingAudio,  \* TranscriptionDisplay: line 24
    audioUrl,        \* TranscriptionDisplay: line 25, 0 for null
    genPending,      \* TranscriptionDisplay: generateSpeech awaited at line 45
    lastAttempt,     \* history: how the last completed generation attempt ended
    urlCount         \* history: object URLs created so far

chunkVars == <<rawSentences, si, currentChunk, remaining, chunks>>
speechVars == <<textChunks, ci, outstanding, audioChunks, totalLength, result,
                issued, responses, caught>>
vars == <<text, pc, rawSentences, si, currentChunk, remaining, chunks,
          textChunks, ci, outstanding, audioChunks, totalLength, result,
          issued, responses, caught,
          appState, transcript, errorMsg, transcribing, mode, selectedFile,
          pendingStarts, recorders, timers, stopEvents, mediaRecorderRef,
          timerIntervalRef, isGeneratingAudio, audioUrl, genPending, lastAttempt,
          urlCount>>

appVars == <<appState, transcript, errorMsg, transcribing>>
recorderVars == <<mode, selectedFile, pendingStarts, recorders, timers, stopEvents,
                  mediaRecorderRef, timerIntervalRef>>
displayVars == <<isGeneratingAudio, audioUrl, genPending, lastAttempt, urlCount>>
uiVars == <<appVars, recorderVars, displayVars>>

(***************************************************************************)
(* Character classes and string functions of the runtime.                 *)
(***************************************************************************)
\* the class [.!?\n] of the regular expression
IsDelim(c) == c \in {".", "!", "?", "\n"}

\* \s of the regular expression, and the characters trim() removes
IsSpace(c) == c \in {" ", "\t", "\n"}

\* String.prototype.substring(a, b), 0-based, b exclusive
Substring(s, a, b) == SubSeq(s, a + 1, b)

\* String.prototype.substring(a)
SubstringFrom(s, a) == SubSeq(s, a + 1, Len(s))

\* String.prototype.trim()
Trim(s) ==
    LET keep == {i \in 1..Len(s) : ~IsSpace(s[i])}
    IN  IF keep = {} THEN <<>>
        ELSE SubSeq(s, CHOOSE i \in keep : \A j \in keep : i <= j,
                       CHOOSE i \in keep : \A j \in keep : j <= i)

\* String.prototype.lastIndexOf(c, fromIndex): the greatest 0-based index
\* <= fromIndex holding c, or -1
LastIndexOf(s, c, fromIndex) ==
    LET hits == {i \in 0..(Len(s) - 1) : i <= fromIndex /\ s[i + 1] = c}
    IN  IF hits = {} THEN -1
        ELSE CHOOSE i \in hits : \A j \in hits : j <= i

(***************************************************************************)
(* text.match(/[^.!?\n]+[.!?\n]+(\s+|$)|[^.!?\n]+$/g), line 172.           *)
(* Positions are 1-based; an end position is one past the last character.  *)
(***************************************************************************)
NonDelim(c) == ~IsDelim(c)

\* [^.!?\n]+ at p: the ends q > p such that s[p..q-1] holds no delimiter
NonDelimRunEnds(s, p) ==
    {q \in (p + 1)..(Len(s) + 1) : \A i \in p..(q - 1) : NonDelim(s[i])}

\* [.!?\n]+ at p
DelimRunEnds(s, p) ==
    {q \in (p + 1)..(Len(s) + 1) : \A i \in p..(q - 1) : IsDelim(s[i])}

\* \s+ at p
SpaceRunEnds(s, p) ==
    {q \in (p + 1)..(Len(s) + 1) : \A i \in p..(q - 1) : IsSpace(s[i])}

Greatest(S) == CHOOSE x \in S : \A y \in S : y <= x

\* (\s+|$) at position d: the end of the greedy blank run, else d at the end of
\* the input, else 0 (no match)
TailEnd(s, d) ==
    LET ws == SpaceRunEnds(s, d)
    IN  IF ws # {} THEN Greatest(ws)
        ELSE IF d = Len(s) + 1 THEN d
        ELSE 0

\* first alternative at p: [^.!?\n]+ then [.!?\n]+ then (\s+|$), each
\* quantifier greedy and giving back one character at a time; 0 when it fails
Alt1End(s, p) ==
    LET xs == {x \in NonDelimRunEnds(s, p) :
                  \E d \in DelimRunEnds(s, x) : TailEnd(s, d) # 0}
    IN  IF xs = {} THEN 0
        ELSE LET x == Greatest(xs)
                 d == Greatest({e \in DelimRunEnds(s, x) : TailEnd(s, e) # 0})
             IN  TailEnd(s, d)

\* second alternative at p: [^.!?\n]+ then $
Alt2End(s, p) ==
    IF Len(s) + 1 \in NonDelimRunEnds(s, p) THEN Len(s) + 1 ELSE 0

\* the end of the match that starts at p, 0 when none starts there
MatchEnd(s, p) ==
    IF Alt1End(s, p) # 0 THEN Alt1End(s, p) ELSE Alt2End(s, p)

\* the matches of the global regular expression from position p on
RECURSIVE MatchesFrom(_, _)
MatchesFrom(s, p) ==
    IF p > Len(s) THEN <<>>
    ELSE IF MatchEnd(s, p) = 0 THEN MatchesFrom(s, p + 1)
    ELSE <<SubSeq(s, p, MatchEnd(s, p) - 1)>> \o MatchesFrom(s, MatchEnd(s, p))

\* text.match(...) || [text]: match yields null when nothing matches
RawSentences(s) ==
    IF MatchesFrom(s, 1) = <<>> THEN <<s>> ELSE MatchesFrom(s, 1)

(***************************************************************************)
(* chunkText, lines 169-210.                                               *)
(***************************************************************************)
\* line 178: the unit is larger than the limit
Oversized(sentence) == Len(sentence) > MAX_CHAR_LIMIT

\* line 197: (currentChunk + sentence).length <= MAX_CHAR_LIMIT
Fits(chunk, sentence) == Len(chunk \o sentence) <= MAX_CHAR_LIMIT

\* BreakIndex with the fallback cut one character too far
BreakIndexOffByOne(rem) ==
    IF LastIndexOf(rem, " ", MAX_CHAR_LIMIT) = -1 THEN MAX_CHAR_LIMIT + 1
    ELSE LastIndexOf(rem, " ", MAX_CHAR_LIMIT)

\* BreakIndex with the fallback cut one character short
BreakIndexShort(rem) ==
    IF LastIndexOf(rem, " ", MAX_CHAR_LIMIT) = -1 THEN MAX_CHAR_LIMIT - 1
    ELSE LastIndexOf(rem, " ", MAX_CHAR_LIMIT)

\* BreakIndex that takes the first space (indexOf) instead of the last
BreakIndexFirst(rem) ==
    LET hits == {i \in 0..MAX_CHAR_LIMIT : i < Len(rem) /\ rem[i + 1] = " "}
    IN  IF hits = {} THEN MAX_CHAR_LIMIT
        ELSE CHOOSE i \in hits : \A j \in hits : i <= j

\* lines 191-192: lastIndexOf(' ', MAX_CHAR_LIMIT), MAX_CHAR_LIMIT when -1
BreakIndex(rem) ==
    IF LastIndexOf(rem, " ", MAX_CHAR_LIMIT) = -1 THEN MAX_CHAR_LIMIT
    ELSE LastIndexOf(rem, " ", MAX_CHAR_LIMIT)

\* lines 170-174
MatchSentences ==
    /\ pc = "match"
    /\ rawSentences' = RawSentences(text)
    /\ si' = 1
    /\ currentChunk' = <<>>
    /\ chunks' = <<>>
    /\ pc' = "for"
    /\ UNCHANGED <<text, remaining>>
    /\ UNCHANGED speechVars
    /\ UNCHANGED uiVars

\* one iteration of the for loop up to the inner while, lines 176-184 and 197-202
ForSentence ==
    /\ pc = "for"
    /\ si <= Len(rawSentences)
    /\ LET sentence == rawSentences[si]
       IN  IF Oversized(sentence)
           THEN /\ chunks' = IF currentChunk # <<>>
                             THEN Append(chunks, Trim(currentChunk))
                             ELSE chunks
                /\ currentChunk' = <<>>
                /\ remaining' = sentence
                /\ pc' = "while"
                /\ si' = si
           ELSE IF Fits(currentChunk, sentence)
           THEN /\ currentChunk' = currentChunk \o sentence
                /\ si' = si + 1
                /\ UNCHANGED <<chunks, remaining, pc>>
           ELSE /\ chunks' = Append(chunks, Trim(currentChunk))
                /\ currentChunk' = sentence
                /\ si' = si + 1
                /\ UNCHANGED <<remaining, pc>>
    /\ UNCHANGED <<text, rawSentences>>
    /\ UNCHANGED speechVars
    /\ UNCHANGED uiVars

\* one iteration of the hard-split loop, lines 185-196; a loop that never ends
\* is followed until chunks holds MaxChunks pieces
WhileRemaining ==
    /\ pc = "while"
    /\ Len(chunks) < MaxChunks
    /\ IF Len(remaining) = 0
       THEN /\ pc' = "for"
            /\ si' = si + 1
            /\ UNCHANGED <<currentChunk, remaining, chunks>>
       ELSE IF Len(remaining) <= MAX_CHAR_LIMIT
       THEN /\ currentChunk' = remaining
            /\ pc' = "for"
            /\ si' = si + 1
            /\ UNCHANGED <<remaining, chunks>>
       ELSE /\ chunks' = Append(chunks, Trim(Substring(remaining, 0, BreakIndex(remaining))))
            /\ remaining' = SubstringFrom(remaining, BreakIndex(remaining))
            /\ UNCHANGED <<currentChunk, pc, si>>
    /\ UNCHANGED <<text, rawSentences>>
    /\ UNCHANGED speechVars
    /\ UNCHANGED uiVars

\* lines 205-209
FinalFlush ==
    /\ pc = "for"
    /\ si > Len(rawSentences)
    /\ chunks' = IF Trim(currentChunk) # <<>>
                 THEN Append(chunks, Trim(currentChunk))
                 ELSE chunks
    /\ pc' = "returned"
    /\ UNCHANGED <<text, rawSentences, si, currentChunk, remaining>>
    /\ UNCHANGED speechVars
    /\ UNCHANGED uiVars

\* the components as first rendered: App lines 224-226, AudioRecorder lines
\* 13-21, TranscriptionDisplay lines 22-26
UiStart ==
    /\ appState = "IDLE"
    /\ transcript = ""
    /\ errorMsg = ""
    /\ transcribing = 0
    /\ mode = "record"
    /\ selectedFile = FALSE
    /\ pendingStarts = [live |-> 0, stale |-> 0]
    /\ recorders = <<>>
    /\ timers = {}
    /\ stopEvents = {}
    /\ mediaRecorderRef = 0
    /\ timerIntervalRef = 0
    /\ isGeneratingAudio = FALSE
    /\ audioUrl = 0
    /\ genPending = FALSE
    /\ lastAttempt = "none"
    /\ urlCount = 0

\* the state every request starts from
Start ==
    /\ UiStart
    /\ pc = "match"
    /\ rawSentences = <<>>
    /\ si = 1
    /\ currentChunk = <<>>
    /\ remaining = <<>>
    /\ chunks = <<>>
    /\ textChunks = <<>>
    /\ ci = 1
    /\ outstanding = {}
    /\ audioChunks = <<>>
    /\ totalLength = 0
    /\ result = [kind |-> "pending", buffer |-> <<>>, error |-> ""]
    /\ issued = <<>>
    /\ responses = <<>>
    /\ caught = ""

\* chunkText on every text of at most MaxTextLen characters
InitChunk == text \in StringsOver(Alphabet, MaxTextLen) /\ Start

NextChunk == MatchSentences \/ ForSentence \/ WhileRemaining \/ FinalFlush

SpecChunk == InitChunk /\ [][NextChunk]_vars

(***************************************************************************)
(* generateSpeech, lines 212-264.  The service's answer to one call is    *)
(* an input: the call throws, or it returns a response without inline     *)
(* data, or one whose inline data decodes (base64ToUint8Array, line 239)  *)
(* to the bytes of a payload.                                             *)
(***************************************************************************)
\* decoded payloads a response may carry; the empty one is non-empty base64
\* text that decodes to no byte
Payloads == {<<>>, <<1>>, <<2, 3>>}

Returns ==
    {[kind |-> "nodata", bytes |-> <<>>]}
        \cup {[kind |-> "data", bytes |-> b] : b \in Payloads}

Throws == [kind |-> "throw", bytes |-> <<>>]

\* the message of the Error the catch block throws, lines 259-263
SpeechError ==
    "Failed to generate speech audio. The text might be too complex or the service is temporarily unavailable."

\* lines 262 and 257: the two ways the promise settles
Rejected == [kind |-> "rejected", buffer |-> <<>>, error |-> SpeechError]
Resolved(buf) == [kind |-> "resolved", buffer |-> buf, error |-> ""]

\* what a failing generateContent call throws: the cause is the service's
ServiceErrors == {"network error", "quota exceeded", "malformed response"}

\* the message of the Error of line 246
NoAudioError == "No audio content generated from Gemini."

\* Catch that throws the error it received on to the caller
CatchRethrown(error) == [kind |-> "rejected", buffer |-> <<>>, error |-> error]

\* lines 259-263: the catch block logs the error it received and throws a new
\* Error with the fixed message
Catch(error) == Rejected

\* IsBlank that skips nothing
IsBlankNever(chunk) == FALSE

\* line 220: !chunk.trim()
IsBlank(chunk) == Trim(chunk) = <<>>

\* AwaitReady that does not wait for the call in flight
AwaitReadyNoWait(calls) == TRUE

\* line 222: await; the loop goes on only when no call is in flight
AwaitReady(calls) == calls = {}

\* NoAudio that lets a zero-length total through
NoAudioNever(total) == FALSE

\* line 245: totalLength === 0
NoAudio(total) == total = 0

\* NextOffset that leaves the offset where it was
NextOffsetStuck(offset, chunk) == offset

\* line 254: offset += chunk.length
NextOffset(offset, chunk) == offset + Len(chunk)

\* line 250: new Uint8Array(totalLength), zero-filled
NewUint8Array(n) == [i \in 1..n |-> 0]

\* line 253: combinedAudio.set(chunk, offset)
SetAt(buf, chunk, offset) ==
    [i \in 1..Len(buf) |->
        IF offset < i /\ i <= offset + Len(chunk) THEN chunk[i - offset] ELSE buf[i]]

\* lines 251-255: the copy loop from element k of the list on
RECURSIVE CopyFrom(_, _, _, _)
CopyFrom(buf, list, k, offset) ==
    IF k > Len(list) THEN buf
    ELSE CopyFrom(SetAt(buf, list[k], offset), list, k + 1,
                  NextOffset(offset, list[k]))

\* lines 250-257
Combine(list, total) == CopyFrom(NewUint8Array(total), list, 1, 0)

\* lines 214-216: chunkText has returned
BeginLoop ==
    /\ pc = "returned"
    /\ textChunks' = chunks
    /\ audioChunks' = <<>>
    /\ totalLength' = 0
    /\ ci' = 1
    /\ pc' = "loop"
    /\ UNCHANGED <<text, outstanding, result, issued, responses, caught>>
    /\ UNCHANGED chunkVars
    /\ UNCHANGED uiVars

\* lines 219-235: the loop takes the next segment, skips it when blank and
\* submits it otherwise
NextSegment ==
    /\ pc = "loop"
    /\ ci <= Len(textChunks)
    /\ AwaitReady(outstanding)
    /\ IF IsBlank(textChunks[ci])
       THEN UNCHANGED <<outstanding, issued>>
       ELSE /\ outstanding' = outstanding \cup {ci}
            /\ issued' = Append(issued, ci)
    /\ ci' = ci + 1
    /\ UNCHANGED <<text, pc, textChunks, audioChunks, totalLength, result, responses,
                   caught>>
    /\ UNCHANGED chunkVars
    /\ UNCHANGED uiVars

\* CallThrows that swallows the failure and goes on with the loop
CallThrowsSwallowed(k) ==
    /\ pc = "loop"
    /\ k \in outstanding
    /\ outstanding' = outstanding \ {k}
    /\ responses' = Append(responses, Throws)
    /\ UNCHANGED <<text, pc, textChunks, ci, audioChunks, totalLength, result, issued,
                   caught>>
    /\ UNCHANGED chunkVars
    /\ UNCHANGED uiVars

\* CallThrows that submits the failed segment again
CallThrowsRetried(k) ==
    /\ pc = "loop"
    /\ k \in outstanding
    /\ Len(issued) <= Len(textChunks)
    /\ issued' = Append(issued, k)
    /\ responses' = Append(responses, Throws)
    /\ UNCHANGED <<text, pc, textChunks, ci, outstanding, audioChunks, totalLength, result,
                   caught>>
    /\ UNCHANGED chunkVars
    /\ UNCHANGED uiVars

\* lines 222 and 259-263: the call for segment k throws; the catch block
\* rejects with the generic error
CallThrows(k) ==
    /\ pc = "loop"
    /\ k \in outstanding
    /\ outstanding' = outstanding \ {k}
    /\ responses' = Append(responses, Throws)
    /\ \E error \in ServiceErrors :
           /\ caught' = error
           /\ result' = Catch(error)
    /\ pc' = "done"
    /\ UNCHANGED <<text, textChunks, ci, audioChunks, totalLength, issued>>
    /\ UNCHANGED chunkVars
    /\ UNCHANGED uiVars

\* CallReturns that treats a response without data as a failure
CallReturnsStrict(k, r) ==
    /\ pc = "loop"
    /\ k \in outstanding
    /\ outstanding' = outstanding \ {k}
    /\ responses' = Append(responses, r)
    /\ IF r.kind = "data"
       THEN /\ audioChunks' = Append(audioChunks, r.bytes)
            /\ totalLength' = totalLength + Len(r.bytes)
            /\ UNCHANGED <<pc, result, caught>>
       ELSE /\ caught' = NoAudioError
            /\ result' = Catch(NoAudioError)
            /\ pc' = "done"
            /\ UNCHANGED <<audioChunks, totalLength>>
    /\ UNCHANGED <<text, textChunks, ci, issued>>
    /\ UNCHANGED chunkVars
    /\ UNCHANGED uiVars

\* lines 237-242: the call for segment k returns response r
CallReturns(k, r) ==
    /\ pc = "loop"
    /\ k \in outstanding
    /\ outstanding' = outstanding \ {k}
    /\ responses' = Append(responses, r)
    /\ IF r.kind = "data"
       THEN /\ audioChunks' = Append(audioChunks, r.bytes)
            /\ totalLength' = totalLength + Len(r.bytes)
       ELSE UNCHANGED <<audioChunks, totalLength>>
    /\ UNCHANGED <<text, pc, textChunks, ci, result, issued, caught>>
    /\ UNCHANGED chunkVars
    /\ UNCHANGED uiVars

\* lines 245-257 (and 259-263 for the throw of line 246): the loop is over
Finish ==
    /\ pc = "loop"
    /\ ci > Len(textChunks)
    /\ AwaitReady(outstanding)
    /\ IF NoAudio(totalLength)
       THEN /\ caught' = NoAudioError
            /\ result' = Catch(NoAudioError)
       ELSE /\ result' = Resolved(Combine(audioChunks, totalLength))
            /\ UNCHANGED caught
    /\ pc' = "done"
    /\ UNCHANGED <<text, textChunks, ci, outstanding, audioChunks, totalLength,
                   issued, responses>>
    /\ UNCHANGED chunkVars
    /\ UNCHANGED uiVars

\* generateSpeech on every text of at most MaxSpeechLen characters
InitSpeech == text \in StringsOver(SpeechAlphabet, MaxSpeechLen) /\ Start

NextSpeech ==
    \/ MatchSentences
    \/ ForSentence
    \/ WhileRemaining
    \/ FinalFlush
    \/ BeginLoop
    \/ NextSegment
    \/ \E k \in outstanding : CallThrows(k)
    \/ \E k \in outstanding : \E r \in Returns : CallReturns(k, r)
    \/ Finish

SpecSpeech == InitSpeech /\ [][NextSpeech]_vars

(***************************************************************************)
(* Claims about chunkText.                                                 *)
(***************************************************************************)
RECURSIVE Flatten(_)
Flatten(ss) == IF ss = <<>> THEN <<>> ELSE Head(ss) \o Flatten(Tail(ss))

NotSpace(c) == ~IsSpace(c)

\* s without its whitespace characters
Solid(s) == SelectSeq(s, NotSpace)

\* C1: every segment chunkText has produced, at any point and at its return,
\* has at most MAX_CHAR_LIMIT characters.
C1_BudgetInvariant ==
    \A i \in 1..Len(chunks) : Len(chunks[i]) <= MAX_CHAR_LIMIT

\* chunkText returned a hard-split piece of exactly the budget, then a final flush
C1_Witness ==
    /\ pc = "returned"
    /\ Len(text) > MAX_CHAR_LIMIT
    /\ Len(chunks) >= 2
    /\ Len(chunks[1]) = MAX_CHAR_LIMIT
    /\ \A i \in 1..Len(text) : text[i] = "a"

\* C2: every iteration of the hard-split loop that does not leave the loop
\* removes at least one character from remaining.
C2_HardSplitProgress ==
    [][(pc = "while" /\ pc' = "while") => Len(remaining') < Len(remaining)]_vars

\* C3: when chunkText returns, the segments joined in order hold exactly the
\* non-whitespace characters of text, in order (none dropped, duplicated or
\* reordered).
C3_OrderPreservation ==
    pc = "returned" => Solid(Flatten(chunks)) = Solid(text)

\* C10: for a text within the budget that holds a non-whitespace character,
\* chunkText returns exactly one segment, the trimmed text.  (For the empty and
\* the whitespace-only text line 205 returns no segment at all; they are left
\* out here so that the violation shown is the one of the units of line 172.)
C10_NoOpBudget ==
    (pc = "returned" /\ Len(text) <= MAX_CHAR_LIMIT /\ Trim(text) # <<>>)
        => chunks = <<Trim(text)>>

(***************************************************************************)
(* Claims about generateSpeech.                                            *)
(***************************************************************************)
IsData(r) == r.kind = "data"

\* the decoded payloads of the completed calls, in call order
PayloadLog == SelectSeq(responses, IsData)

\* the bytes of the payloads before payload i
RECURSIVE BytesBefore(_)
BytesBefore(i) ==
    IF i <= 1 THEN 0 ELSE BytesBefore(i - 1) + Len(PayloadLog[i - 1].bytes)

\* a call has thrown
Failed == \E i \in 1..Len(responses) : responses[i].kind = "throw"

\* the segments of textChunks that are not blank, in order
Speakable == {j \in 1..Len(textChunks) : Trim(textChunks[j]) # <<>>}

\* C4: a buffer generateSpeech returns is as long as the decoded payloads
\* together, and payload i occupies exactly the bytes from the total length of
\* the payloads before it on.
C4_Reassembly ==
    result.kind = "resolved" =>
        /\ Len(result.buffer) = BytesBefore(Len(PayloadLog) + 1)
        /\ \A i \in 1..Len(PayloadLog) :
               SubSeq(result.buffer, BytesBefore(i) + 1,
                      BytesBefore(i) + Len(PayloadLog[i].bytes))
                   = PayloadLog[i].bytes

\* three segments answered with three different payloads, returned as one buffer
C4_Witness ==
    /\ result.kind = "resolved"
    /\ Len(issued) = 3
    /\ Len(PayloadLog) = 3
    /\ PayloadLog[1].bytes = <<2, 3>>
    /\ PayloadLog[2].bytes = <<1>>
    /\ PayloadLog[3].bytes = <<2, 3>>

\* C5: once a synthesis call has thrown, the request rejects with the generic
\* error and never resolves: no buffer, and none of the payloads collected
\* before, reaches the caller.
C5_AllOrNothing ==
    Failed =>
        /\ result.kind # "resolved"
        /\ result.buffer = <<>>
        /\ pc = "done" => result = Rejected

\* the second of three segments failed after the first returned audio
C5_Witness ==
    /\ pc = "done"
    /\ Cardinality(Speakable) = 3
    /\ Len(responses) = 2
    /\ responses[1].kind = "data" /\ responses[1].bytes # <<>>
    /\ responses[2].kind = "throw"
    /\ result = Rejected

\* C6: at most one call is in flight; a call is submitted only when every
\* earlier call has completed; calls are submitted in the order of the
\* non-blank segments.
C6_Sequential ==
    /\ Cardinality(outstanding) <= 1
    /\ Len(responses) = Len(issued) - Cardinality(outstanding)
    /\ \A i \in 1..Len(issued) :
           /\ issued[i] \in Speakable
           /\ Cardinality({j \in Speakable : j < issued[i]}) = i - 1

\* the third call is in flight after the first two completed
C6_Witness ==
    /\ Len(issued) = 3
    /\ Len(responses) = 2
    /\ outstanding = {issued[3]}

\* C7: no segment is submitted twice, and a call that throws is the last call
\* of the request.
C7_NoRetryStopOnError ==
    /\ \A i, j \in 1..Len(issued) : issued[i] = issued[j] => i = j
    /\ \A i \in 1..Len(responses) :
           responses[i].kind = "throw" => (i = Len(responses) /\ i = Len(issued))

\* the first of several segments failed and the others were never submitted
C7_Witness ==
    /\ pc = "done"
    /\ Failed
    /\ Len(issued) = 1
    /\ Cardinality(Speakable) = 3

\* C8: every buffer generateSpeech returns has at least one byte; a request
\* that ends with a total length of zero is rejected.
C8_ZeroOutput ==
    /\ result.kind = "resolved" => Len(result.buffer) > 0
    /\ (pc = "done" /\ BytesBefore(Len(PayloadLog) + 1) = 0) => result = Rejected

\* every call of a request returned no or an empty payload, none threw, and the
\* request was rejected
C8_Witness ==
    /\ pc = "done"
    /\ ~Failed
    /\ Len(responses) >= 2
    /\ \E i \in 1..Len(responses) : responses[i].kind = "nodata"
    /\ \E i \in 1..Len(responses) : responses[i].kind = "data"
    /\ result = Rejected

\* C9: a blank segment is never submitted and adds no entry to audioChunks; a
\* request that succeeds has submitted exactly the non-blank segments.
C9_EmptyExclusion ==
    /\ \A i \in 1..Len(issued) : Trim(textChunks[issued[i]]) # <<>>
    /\ Len(audioChunks) <= Len(issued)
    /\ result.kind = "resolved" => Len(issued) = Cardinality(Speakable)

\* a request succeeded although chunkText returned a blank segment
C9_Witness ==
    /\ result.kind = "resolved"
    /\ \E j \in 1..Len(textChunks) : Trim(textChunks[j]) = <<>>
    /\ Len(issued) >= 1

(***************************************************************************)
(* Further claims about chunkText.                                         *)
(***************************************************************************)
\* text is one run of ordinary characters, longer than the budget
SingleRun ==
    /\ Len(text) > MAX_CHAR_LIMIT
    /\ \A i \in 1..Len(text) : ~IsSpace(text[i]) /\ ~IsDelim(text[i])

\* ceil(Len(text) / MAX_CHAR_LIMIT)
PiecesNeeded == (Len(text) + MAX_CHAR_LIMIT - 1) \div MAX_CHAR_LIMIT

\* C11: for a single run of L ordinary characters, L over the budget M,
\* chunkText returns ceil(L / M) segments that are the consecutive pieces of
\* the run: M characters each, the last one the rest.
C11_HardSplit ==
    (pc = "returned" /\ SingleRun) =>
        /\ Len(chunks) = PiecesNeeded
        /\ \A i \in 1..Len(chunks) :
               chunks[i] = SubSeq(text, (i - 1) * MAX_CHAR_LIMIT + 1,
                                  IF i < PiecesNeeded THEN i * MAX_CHAR_LIMIT
                                  ELSE Len(text))

\* a run of more than twice the budget came back as three pieces, the last short
C11_Witness ==
    /\ pc = "returned"
    /\ SingleRun
    /\ Len(chunks) = 3
    /\ Len(chunks[3]) < MAX_CHAR_LIMIT

(***************************************************************************)
(* Further claims about generateSpeech.                                    *)
(***************************************************************************)
\* C12: whatever error the catch block received (a failure of the service, of
\* any cause, or the zero-length total of line 246), the caller gets the same
\* rejection: same type, same message, no buffer.
C12_SameError ==
    /\ result.kind = "rejected" <=> caught # ""
    /\ result.kind = "rejected" => result = Rejected

\* a request rejected for a zero-length total, no call having failed
C12_Witness ==
    /\ result.kind = "rejected"
    /\ caught = NoAudioError
    /\ ~Failed
    /\ Len(issued) = 3

\* a request rejected because the service failed, for the comparison
C12_WitnessThrown ==
    /\ result.kind = "rejected"
    /\ caught = "quota exceeded"
    /\ Len(issued) = 3

\* a completed call that carried no audio: no inline data, or data of no byte
Silent(r) == r.kind = "nodata" \/ (r.kind = "data" /\ r.bytes = <<>>)

\* the payloads of at least one byte, in call order
RECURSIVE AudibleBytes(_)
AudibleBytes(log) ==
    IF log = <<>> THEN <<>>
    ELSE (IF Silent(Head(log)) \/ Head(log).kind = "throw" THEN <<>>
          ELSE Head(log).bytes) \o AudibleBytes(Tail(log))

\* C13: a call that completes without audio neither rejects the request nor
\* stops the loop; only a thrown failure does.  A request in which no call
\* threw submits every non-blank segment, and when some call returned audio it
\* resolves to the non-empty payloads in order.
C13_Asymmetry ==
    /\ (~Failed /\ pc = "loop") => result.kind = "pending"
    /\ (~Failed /\ pc = "done") => Len(issued) = Cardinality(Speakable)
    /\ (~Failed /\ pc = "done" /\ AudibleBytes(responses) # <<>>) =>
           result = Resolved(AudibleBytes(responses))
    /\ (pc = "done" /\ result.kind = "rejected" /\ AudibleBytes(responses) # <<>>)
           => Failed

\* the second of three calls returned no data and the request still resolved
C13_Witness ==
    /\ result.kind = "resolved"
    /\ Len(responses) = 3
    /\ responses[1].kind = "data" /\ responses[1].bytes # <<>>
    /\ responses[2].kind = "nodata"
    /\ responses[3].kind = "data" /\ responses[3].bytes # <<>>
    /\ result.buffer = responses[1].bytes \o responses[3].bytes

(***************************************************************************)
(* Claims about the units and the break point of chunkText.                *)
(***************************************************************************)
\* C14: the units of line 172 concatenate, in order, to the text.
C14_UnitRoundTrip ==
    pc # "match" => Flatten(rawSentences) = text

\* the 0-based indices at or before the budget where rem holds a space
SpacesInRange(rem) ==
    {i \in 0..MAX_CHAR_LIMIT : i < Len(rem) /\ rem[i + 1] = " "}

\* the same for whitespace of any kind
BlanksInRange(rem) ==
    {i \in 0..MAX_CHAR_LIMIT : i < Len(rem) /\ IsSpace(rem[i + 1])}

\* the cut a set of candidate indices asks for: its greatest, else the budget
CutAt(candidates) ==
    IF candidates = {} THEN MAX_CHAR_LIMIT ELSE Greatest(candidates)

\* the hard-split step from an oversized remaining cuts it at index b
SplitsAt(b) ==
    /\ chunks' = Append(chunks, Trim(SubSeq(remaining, 1, b)))
    /\ remaining' = SubSeq(remaining, b + 1, Len(remaining))

\* C15 as stated: every hard-split step cuts at the last whitespace character
\* of any kind at or before index MAX_CHAR_LIMIT, at MAX_CHAR_LIMIT when none.
C15_BreakAtWhitespace ==
    [][(pc = "while" /\ Len(remaining) > MAX_CHAR_LIMIT)
          => SplitsAt(CutAt(BlanksInRange(remaining)))]_vars

\* C15 amended: every hard-split step cuts at the last space character (' ')
\* at or before index MAX_CHAR_LIMIT, at MAX_CHAR_LIMIT when there is none;
\* a tab or a newline is no break point.
C15_BreakAtSpace ==
    [][(pc = "while" /\ Len(remaining) > MAX_CHAR_LIMIT)
          => SplitsAt(CutAt(SpacesInRange(remaining)))]_vars

\* a unit was cut at a space although a tab stood later within the budget
C15_Witness ==
    /\ pc = "while"
    /\ rawSentences = <<text>>
    /\ Len(chunks) = 1
    /\ SpacesInRange(text) # {}
    /\ CutAt(SpacesInRange(text)) > 0
    /\ CutAt(BlanksInRange(text)) > CutAt(SpacesInRange(text))
    /\ remaining = SubSeq(text, CutAt(SpacesInRange(text)) + 1, Len(text))

\* ---------------------------------------------------------------------------
\* The components: App, AudioRecorder and TranscriptionDisplay.  A handler
\* runs to its next await in one step; what it awaits settles in a later step.
\* ---------------------------------------------------------------------------

\* MediaRecorder objects one run creates
MaxRecorders == 2
\* calls of transcribeAudio in flight at once
MaxTranscriptions == 2
\* object URLs one run creates
MaxAttempts == 2

\* what the model answers as response.text; "" also stands for undefined
ResponseTexts == {"", " ", "hi"}

\* the reply returned as it came, with no placeholder
TranscribeResultRaw(responseText) ==
    responseText

\* geminiService.ts line 159: response.text || "No transcription generated."
TranscribeResult(responseText) ==
    IF responseText = "" THEN "No transcription generated." ELSE responseText

\* App line 242
ProcessingError ==
    "We encountered an issue processing your audio. Please check your connection and try again."

\* AudioRecorder lines 107-108
isRecording == appState = "RECORDING"
isProcessing == appState = "PROCESSING"

\* App line 291: the recorder is rendered unless the state is COMPLETED,
\* the transcription display only when it is
RecorderMounted == appState # "COMPLETED"
DisplayMounted == appState = "COMPLETED"

\* a state change that takes the display off the page discards its state;
\* the next one rendered starts from lines 22-26
DisplayRender(newState) ==
    IF DisplayMounted /\ newState # "COMPLETED"
    THEN /\ isGeneratingAudio' = FALSE
         /\ audioUrl' = 0
         /\ genPending' = FALSE
         /\ lastAttempt' = "none"
         /\ UNCHANGED urlCount
    ELSE UNCHANGED displayVars

\* a state change that takes the recorder off the page runs the cleanup of
\* lines 101-105 and discards its state and refs; the invocations of
\* startRecording still awaiting belong to no rendered component any more
RecorderRender(newState) ==
    IF RecorderMounted /\ newState = "COMPLETED"
    THEN /\ mode' = "record"
         /\ selectedFile' = FALSE
         /\ pendingStarts' = [live |-> 0,
                              stale |-> pendingStarts.stale + pendingStarts.live]
         /\ timers' = timers \ {timerIntervalRef}
         /\ mediaRecorderRef' = 0
         /\ timerIntervalRef' = 0
         /\ UNCHANGED <<recorders, stopEvents>>
    ELSE UNCHANGED recorderVars

\* App lines 228-236, up to the await of transcribeAudio
HandleRecordingCompleteBegin ==
    /\ appState' = "PROCESSING"
    /\ errorMsg' = ""
    /\ transcribing' = transcribing + 1
    /\ UNCHANGED transcript
    /\ DisplayRender("PROCESSING")

\* App lines 238-239 after transcribeAudio (lines 135-164) resolved
TranscribeResolves(responseText) ==
    /\ transcribing > 0
    /\ transcribing' = transcribing - 1
    /\ transcript' = TranscribeResult(responseText)
    /\ appState' = "COMPLETED"
    /\ UNCHANGED errorMsg
    /\ RecorderRender("COMPLETED")
    /\ UNCHANGED displayVars
    /\ UNCHANGED <<text, pc, chunkVars, speechVars>>

\* App lines 240-244 after transcribeAudio rejected (lines 160-163)
TranscribeRejects ==
    /\ transcribing > 0
    /\ transcribing' = transcribing - 1
    /\ errorMsg' = ProcessingError
    /\ appState' = "ERROR"
    /\ UNCHANGED transcript
    /\ DisplayRender("ERROR")
    /\ UNCHANGED recorderVars
    /\ UNCHANGED <<text, pc, chunkVars, speechVars>>

\* App lines 247-251, from "Try Again" (line 279) or the display's onReset
HandleReset ==
    /\ (appState = "ERROR" /\ errorMsg # "") \/ DisplayMounted
    /\ appState' = "IDLE"
    /\ transcript' = ""
    /\ errorMsg' = ""
    /\ UNCHANGED transcribing
    /\ DisplayRender("IDLE")
    /\ UNCHANGED recorderVars
    /\ UNCHANGED <<text, pc, chunkVars, speechVars>>

\* AudioRecorder lines 30-32: the Start button (lines 188-195) is on the page
\* while the state is neither RECORDING nor PROCESSING; the invocation stops
\* at the await of getUserMedia
StartRecording ==
    /\ RecorderMounted /\ ~isRecording /\ ~isProcessing /\ mode = "record"
    /\ Len(recorders) + pendingStarts.live + pendingStarts.stale < MaxRecorders
    /\ pendingStarts' = [pendingStarts EXCEPT !.live = @ + 1]
    /\ UNCHANGED <<mode, selectedFile, recorders, timers, stopEvents,
                   mediaRecorderRef, timerIntervalRef>>
    /\ UNCHANGED <<appVars, displayVars>>
    /\ UNCHANGED <<text, pc, chunkVars, speechVars>>

\* AudioRecorder lines 33-58 after getUserMedia resolved: a recorder and a
\* timer are created and started; the refs written are those of the component
\* the invocation belongs to, which instance "stale" is no longer rendered
GetUserMediaResolves(instance) ==
    /\ pendingStarts[instance] > 0
    /\ pendingStarts' = [pendingStarts EXCEPT ![instance] = @ - 1]
    /\ recorders' = Append(recorders, "recording")
    /\ timers' = timers \cup {Len(recorders) + 1}
    /\ IF instance = "live"
       THEN /\ mediaRecorderRef' = Len(recorders) + 1
            /\ timerIntervalRef' = Len(recorders) + 1
       ELSE UNCHANGED <<mediaRecorderRef, timerIntervalRef>>
    /\ appState' = "RECORDING"
    /\ DisplayRender("RECORDING")
    /\ UNCHANGED <<mode, selectedFile, stopEvents>>
    /\ UNCHANGED <<transcript, errorMsg, transcribing>>
    /\ UNCHANGED <<text, pc, chunkVars, speechVars>>

\* AudioRecorder lines 59-63 after getUserMedia rejected
GetUserMediaRejects(instance) ==
    /\ pendingStarts[instance] > 0
    /\ pendingStarts' = [pendingStarts EXCEPT ![instance] = @ - 1]
    /\ appState' = "ERROR"
    /\ DisplayRender("ERROR")
    /\ UNCHANGED <<mode, selectedFile, recorders, timers, stopEvents,
                   mediaRecorderRef, timerIntervalRef>>
    /\ UNCHANGED <<transcript, errorMsg, transcribing>>
    /\ UNCHANGED <<text, pc, chunkVars, speechVars>>

\* AudioRecorder lines 66-74, from the Stop button (lines 180-186); when the
\* condition of line 67 is false nothing changes
StopRecording ==
    /\ RecorderMounted /\ isRecording /\ mode = "record"
    /\ mediaRecorderRef # 0 /\ recorders[mediaRecorderRef] = "recording"
    /\ recorders' = [recorders EXCEPT ![mediaRecorderRef] = "inactive"]
    /\ stopEvents' = stopEvents \cup {mediaRecorderRef}
    /\ timers' = timers \ {timerIntervalRef}
    /\ appState' = "PROCESSING"
    /\ UNCHANGED <<mode, selectedFile, pendingStarts, mediaRecorderRef, timerIntervalRef>>
    /\ UNCHANGED <<transcript, errorMsg, transcribing>>
    /\ UNCHANGED displayVars
    /\ UNCHANGED <<text, pc, chunkVars, speechVars>>

\* AudioRecorder lines 45-49: the stop event of a stopped recorder calls
\* onRecordingComplete, which is App.handleRecordingComplete
RecorderOnStop(id) ==
    /\ id \in stopEvents
    /\ transcribing < MaxTranscriptions
    /\ stopEvents' = stopEvents \ {id}
    /\ HandleRecordingCompleteBegin
    /\ UNCHANGED <<mode, selectedFile, pendingStarts, recorders, timers,
                   mediaRecorderRef, timerIntervalRef>>
    /\ UNCHANGED <<text, pc, chunkVars, speechVars>>

\* AudioRecorder lines 119 and 128: the tabs are on the page while the state
\* is neither RECORDING nor PROCESSING (line 114)
SetMode(m) ==
    /\ RecorderMounted /\ ~isRecording /\ ~isProcessing
    /\ mode # m
    /\ mode' = m
    /\ UNCHANGED <<selectedFile, pendingStarts, recorders, timers, stopEvents,
                   mediaRecorderRef, timerIntervalRef>>
    /\ UNCHANGED <<appVars, displayVars>>
    /\ UNCHANGED <<text, pc, chunkVars, speechVars>>

\* AudioRecorder lines 77-86 (a valid file chosen) and 95-98 (clearFile)
SetSelectedFile(file) ==
    /\ RecorderMounted /\ ~isProcessing /\ mode = "upload"
    /\ selectedFile # file
    /\ selectedFile' = file
    /\ UNCHANGED <<mode, pendingStarts, recorders, timers, stopEvents,
                   mediaRecorderRef, timerIntervalRef>>
    /\ UNCHANGED <<appVars, displayVars>>
    /\ UNCHANGED <<text, pc, chunkVars, speechVars>>

\* AudioRecorder lines 88-93, from the button of lines 236-242
ProcessFile ==
    /\ RecorderMounted /\ ~isProcessing /\ mode = "upload"
    /\ selectedFile
    /\ transcribing < MaxTranscriptions
    /\ HandleRecordingCompleteBegin
    /\ UNCHANGED recorderVars
    /\ UNCHANGED <<text, pc, chunkVars, speechVars>>

\* TranscriptionDisplay lines 38-43 with line 43, setAudioUrl(null), left out
HandleGenerateAudioKeepsUrl ==
    /\ DisplayMounted /\ ~isGeneratingAudio
    /\ transcript # ""
    /\ urlCount < MaxAttempts
    /\ isGeneratingAudio' = TRUE
    /\ genPending' = TRUE
    /\ UNCHANGED <<audioUrl, lastAttempt, urlCount>>
    /\ UNCHANGED <<appVars, recorderVars>>
    /\ UNCHANGED <<text, pc, chunkVars, speechVars>>

\* TranscriptionDisplay lines 38-45, from the button of lines 152-154, which
\* is disabled while isGeneratingAudio; with an empty transcript line 39
\* returns and nothing changes
HandleGenerateAudio ==
    /\ DisplayMounted /\ ~isGeneratingAudio
    /\ transcript # ""
    /\ urlCount < MaxAttempts
    /\ isGeneratingAudio' = TRUE
    /\ audioUrl' = 0
    /\ genPending' = TRUE
    /\ UNCHANGED <<lastAttempt, urlCount>>
    /\ UNCHANGED <<appVars, recorderVars>>
    /\ UNCHANGED <<text, pc, chunkVars, speechVars>>

\* TranscriptionDisplay lines 46-48 and 52-54 after generateSpeech resolved
GenerateResolves ==
    /\ genPending
    /\ genPending' = FALSE
    /\ urlCount' = urlCount + 1
    /\ audioUrl' = urlCount + 1
    /\ isGeneratingAudio' = FALSE
    /\ lastAttempt' = "succeeded"
    /\ UNCHANGED <<appVars, recorderVars>>
    /\ UNCHANGED <<text, pc, chunkVars, speechVars>>

\* TranscriptionDisplay lines 49-54 after generateSpeech rejected, or
\* createWavBlob or createObjectURL threw
GenerateRejects ==
    /\ genPending
    /\ genPending' = FALSE
    /\ isGeneratingAudio' = FALSE
    /\ lastAttempt' = "failed"
    /\ UNCHANGED <<audioUrl, urlCount>>
    /\ UNCHANGED <<appVars, recorderVars>>
    /\ UNCHANGED <<text, pc, chunkVars, speechVars>>

InitApp ==
    /\ Start
    /\ text = <<>>

NextApp ==
    \/ StartRecording
    \/ \E instance \in {"live", "stale"} : GetUserMediaResolves(instance)
    \/ \E instance \in {"live", "stale"} : GetUserMediaRejects(instance)
    \/ StopRecording
    \/ \E id \in stopEvents : RecorderOnStop(id)
    \/ \E m \in {"record", "upload"} : SetMode(m)
    \/ \E file \in BOOLEAN : SetSelectedFile(file)
    \/ ProcessFile
    \/ \E responseText \in ResponseTexts : TranscribeResolves(responseText)
    \/ TranscribeRejects
    \/ HandleReset
    \/ HandleGenerateAudio
    \/ GenerateResolves
    \/ GenerateRejects

SpecApp == InitApp /\ [][NextApp]_vars

\* ---------------------------------------------------------------------------
\* Claims about the components
\* ---------------------------------------------------------------------------

\* C16: once an attempt of handleGenerateAudio has ended because the
\* generation failed, audioUrl is null and isGeneratingAudio is false; audioUrl
\* is non-null only if the most recent completed attempt succeeded.
C16_AudioUrlAfterFailure ==
    /\ (lastAttempt = "failed" /\ ~genPending)
          => (audioUrl = 0 /\ ~isGeneratingAudio)
    /\ audioUrl # 0 => lastAttempt = "succeeded"

\* an attempt succeeded and the next one failed: the first URL is gone
C16_Witness ==
    /\ DisplayMounted
    /\ lastAttempt = "failed" /\ ~genPending
    /\ urlCount = 1
    /\ audioUrl = 0 /\ ~isGeneratingAudio

\* C17: whenever appState is COMPLETED the transcript is a non-empty string.
C17_CompletedHasTranscript ==
    appState = "COMPLETED" => transcript # ""

\* the service answered with no text and the display shows the placeholder
C17_Witness ==
    /\ appState = "COMPLETED"
    /\ transcript = "No transcription generated."
    /\ transcribing = 0

\* C18: every recorder that is recording is the one mediaRecorderRef holds,
\* and every active timer is the one timerIntervalRef holds, so that
\* stopRecording reaches all of them.
C18_NoOrphan ==
    /\ \A id \in 1..Len(recorders) :
          recorders[id] = "recording" => mediaRecorderRef = id
    /\ \A t \in timers : timerIntervalRef = t

====
